---- MODULE Spec2Model ----
(***************************************************************************)
(* Model of 9dttt_bot.py: the posting shim safe_post_tweet (v2 call with a *)
(* v1.1 fallback), the dedup file (load_json_set / save_json_set) and the  *)
(* mention-check cycle bot_respond.                                        *)
(*                                                                         *)
(* Python strings are sequences of one-character strings.  An optional     *)
(* argument is a sequence: <<>> is None (or an empty list, equally falsy   *)
(* in Python), <<x>> is a given value.                                     *)
(***************************************************************************)
EXTENDS Integers, Sequences, FiniteSets, TLC

\* ------------------------------------------------------------------ bounds
\* Mention identifiers the platform knows: 1..NumMentions.
NumMentions == 2
\* Longest batch one get_users_mentions call returns.
MaxBatch == 2
\* Mention-check cycles the scheduler fires.
MaxCycles == 2
\* Process crashes considered (SpecCrash only).
MaxCrashes == 1
\* Texts handed to safe_post_tweet are at most this much longer than the limit.
MaxOver == 3

\* ------------------------------------------------------- program constants
TWITTER_CHAR_LIMIT == 280

\* The two ellipsis markers of safe_post_tweet: "..." and the one-character
\* U+2026.
Dots == <<".", ".", ".">>
Ellipsis == <<"U+2026">>

\* ------------------------------------------------------------ Python strings
Min(a, b) == IF a < b THEN a ELSE b

\* s[:n] for n >= 0
Take(s, n) == SubSeq(s, 1, Min(n, Len(s)))

\* sub in s
Contains(s, sub) ==
    \E i \in 0..(Len(s) - Len(sub)) : SubSeq(s, i + 1, i + Len(sub)) = sub

EndsWith(s, suf) ==
    /\ Len(s) >= Len(suf)
    /\ SubSeq(s, Len(s) - Len(suf) + 1, Len(s)) = suf

\* c.lower() for the letters that occur in the error texts
LowerChar(c) ==
    CASE c = "C" -> "c"
      [] c = "D" -> "d"
      [] c = "F" -> "f"
      [] c = "P" -> "p"
      [] c = "R" -> "r"
      [] OTHER -> c

\* s.lower()
Lower(s) == [i \in 1..Len(s) |-> LowerChar(s[i])]

\* if x:  for an optional argument
Truthy(x) == x # <<>>

\* ----------------------------------------------------- safe_post_tweet
\* The three substrings of line 100.
Sig402 == <<"4", "0", "2">>
SigCredits == <<"c","r","e","d","i","t","s","d","e","p","l","e","t","e","d">>
SigPayment == <<"p","a","y","m","e","n","t"," ","r","e","q","u","i","r","e","d">>

\* line 99-100: the test on str(e).lower()
LooksLikeQuota(errText) ==
    LET error_str == Lower(errText)
    IN  \/ Contains(error_str, Sig402)
        \/ Contains(error_str, SigCredits)
        \/ Contains(error_str, SigPayment)

\* lines 80-84 cutting at the limit itself, with no room for the marker
TruncateNoHeadroom(text, in_reply_to_tweet_id) ==
    IF Len(text) > TWITTER_CHAR_LIMIT
    THEN Take(text, TWITTER_CHAR_LIMIT) \o Ellipsis
    ELSE text

\* lines 80-84: the truncation safeguard
Truncate(text, in_reply_to_tweet_id) ==
    IF Len(text) > TWITTER_CHAR_LIMIT
    THEN IF Truthy(in_reply_to_tweet_id)
         THEN Take(text, TWITTER_CHAR_LIMIT - 60) \o Dots
         ELSE Take(text, TWITTER_CHAR_LIMIT - 20) \o Ellipsis
    ELSE text

\* What one platform call does: it succeeds (and posts), or it raises err
\* (and posts nothing).
OkOutcome == [ok |-> TRUE, cls |-> "", status |-> 0, text |-> <<>>]
Raises(cls, status, text) ==
    [ok |-> FALSE, cls |-> cls, status |-> status, text |-> text]

\* lines 88-92: the arguments of client.create_tweet
V2Kwargs(text, media_ids, in_reply_to_tweet_id) ==
    [text |-> text,
     media_ids |-> IF Truthy(media_ids) THEN media_ids ELSE <<>>,
     in_reply_to_tweet_id |->
        IF Truthy(in_reply_to_tweet_id) THEN in_reply_to_tweet_id ELSE <<>>]

\* lines 108-113 without line 110: the media ids are not passed on
V1KwargsNoMedia(text, media_ids, in_reply_to_tweet_id) ==
    [status |-> text,
     media_ids |-> <<>>,
     in_reply_to_status_id |->
        IF Truthy(in_reply_to_tweet_id) THEN in_reply_to_tweet_id ELSE <<>>,
     auto_populate_reply_metadata |-> Truthy(in_reply_to_tweet_id)]

\* lines 108-113: the arguments of api_v1.update_status
V1Kwargs(text, media_ids, in_reply_to_tweet_id) ==
    [status |-> text,
     media_ids |-> IF Truthy(media_ids) THEN media_ids ELSE <<>>,
     in_reply_to_status_id |->
        IF Truthy(in_reply_to_tweet_id) THEN in_reply_to_tweet_id ELSE <<>>,
     auto_populate_reply_metadata |-> Truthy(in_reply_to_tweet_id)]

\* The result of one call of safe_post_tweet: whether it raised, what it
\* returned, the calls it made on each surface (their arguments, in order)
\* and which of them posted.
PostResult(raised, ret, v2, v1, v2posted, v1posted) ==
    [raised |-> raised, ret |-> ret, v2 |-> v2, v1 |-> v1,
     v2posted |-> v2posted, v1posted |-> v1posted]

\* safe_post_tweet without the "return True" of line 96
safe_post_tweet_fallthrough(text, media_ids, in_reply_to_tweet_id, primary, fallback) ==
    LET t  == Truncate(text, in_reply_to_tweet_id)
        v2 == <<V2Kwargs(t, media_ids, in_reply_to_tweet_id)>>
        v1 == <<V1Kwargs(t, media_ids, in_reply_to_tweet_id)>>
    IN  IF primary.ok \/ (primary.cls = "TweepyException" /\ LooksLikeQuota(primary.text))
        THEN PostResult(FALSE, fallback.ok \/ primary.ok, v2, v1, primary.ok, fallback.ok)
        ELSE IF primary.cls = "TweepyException"
        THEN PostResult(FALSE, FALSE, v2, <<>>, FALSE, FALSE)
        ELSE PostResult(TRUE, FALSE, v2, <<>>, FALSE, FALSE)

\* lines 71-121
safe_post_tweet(text, media_ids, in_reply_to_tweet_id, primary, fallback) ==
    LET t  == Truncate(text, in_reply_to_tweet_id)
        v2 == <<V2Kwargs(t, media_ids, in_reply_to_tweet_id)>>
        v1 == <<V1Kwargs(t, media_ids, in_reply_to_tweet_id)>>
    IN  IF primary.ok
        THEN \* line 94-96
             PostResult(FALSE, TRUE, v2, <<>>, TRUE, FALSE)
        ELSE IF primary.cls # "TweepyException"
        THEN \* not caught by line 98: the exception leaves the function
             PostResult(TRUE, FALSE, v2, <<>>, FALSE, FALSE)
        ELSE IF ~ LooksLikeQuota(primary.text)
        THEN \* line 102-104
             PostResult(FALSE, FALSE, v2, <<>>, FALSE, FALSE)
        ELSE \* lines 107-121: every failure of the fallback is caught
             PostResult(FALSE, fallback.ok, v2, v1, FALSE, fallback.ok)

\* ------------------------------------------------------- the platform
\* Failures of client.create_tweet (line 94), by str(e): tweepy raises
\* TweepyException subclasses for HTTP error responses, whose text starts
\* with the status and may quote anything after it; a failure below the HTTP
\* layer (a connection error) is no TweepyException.
PrimaryFailures ==
    { Raises("TweepyException", 402,
             <<"4","0","2"," ","P","a","y","m","e","n","t"," ","R","e","q","u","i","r","e","d">>),
      Raises("TweepyException", 402,
             <<"C","r","e","d","i","t","s","D","e","p","l","e","t","e","d">>),
      Raises("TweepyException", 403,
             <<"4","0","3"," ","F","o","r","b","i","d","d","e","n">>),
      Raises("TweepyException", 403,
             <<"4","0","3"," ","i","d"," ","1","4","0","2","7">>),
      Raises("TweepyException", 429, <<"4","2","9">>),
      Raises("ConnectionError", 0, <<"r","e","s","e","t">>) }

PrimaryOutcomes == {OkOutcome} \cup PrimaryFailures

\* Outcomes of api_v1.update_status (line 115)
FallbackOutcomes ==
    { OkOutcome,
      Raises("TweepyException", 403,
             <<"4","0","3"," ","F","o","r","b","i","d","d","e","n">>),
      Raises("ConnectionError", 0, <<"r","e","s","e","t">>) }

\* A quota/payment error is an HTTP 402 response.
IsQuotaError(e) == ~ e.ok /\ e.cls = "TweepyException" /\ e.status = 402

\* Texts: length n, contents fixed by n and k.
TextChars == <<"a", "b", ".">>
Text(n, k) == [i \in 1..n |-> TextChars[((i + k) % 3) + 1]]

TextLens ==
    {0, 1, TWITTER_CHAR_LIMIT - 57, TWITTER_CHAR_LIMIT - 19}
        \cup ((TWITTER_CHAR_LIMIT - 1)..(TWITTER_CHAR_LIMIT + MaxOver))

Texts == { Text(n, k) : n \in TextLens, k \in 0..1 }

Mentions == 1..NumMentions

MediaChoices == { <<>>, <<"m1">> }
ReplyChoices == { <<>> } \cup { <<m>> : m \in Mentions }

\* --------------------------------------------------------- the dedup file
\* The file is absent, or holds the JSON text of a list: complete, or cut
\* short (an empty file included), which json.load cannot parse.
NoFile == [exists |-> FALSE, complete |-> FALSE, items |-> <<>>]
FileOf(complete, items) == [exists |-> TRUE, complete |-> complete, items |-> items]

Range(s) == { s[i] : i \in 1..Len(s) }

RECURSIVE SetToSeq(_)
\* list(data)
SetToSeq(S) ==
    IF S = {} THEN <<>>
    ELSE LET x == CHOOSE y \in S : TRUE IN <<x>> \o SetToSeq(S \ {x})

\* lines 142-146
load_json_set(f) ==
    IF ~ f.exists THEN [raised |-> FALSE, value |-> {}]
    ELSE IF ~ f.complete THEN [raised |-> TRUE, value |-> {}]
    ELSE [raised |-> FALSE, value |-> Range(f.items)]

\* What the file holds while json.dump is cut short after k items
Partial(data, k) == FileOf(FALSE, SubSeq(SetToSeq(data), 1, k))

\* ------------------------------------------------------------------ state
VARIABLES
    file,           \* 9dttt_processed_mentions.json
    pc,             \* position of bot_respond
    processed,      \* bot_respond's local set
    batch,          \* mentions.data of this cycle
    idx,            \* position of the for loop in batch
    cycle,          \* cycles started
    loaded,         \* processed as loaded at the start of this cycle
    fileAtLoad,     \* the file at the start of this cycle
    eff,            \* per mention, the calls made on its account this cycle
    postOk,         \* mentions whose safe_post_tweet returned True this cycle
    failed,         \* mentions whose handling failed this cycle
    persistReached, \* save_json_set was called this cycle
    replies,        \* per mention, the reply posts the platform accepted
                    \* (0, 1, or 2 for two and more)
    lastSaved,      \* what the last save_json_set that completed wrote
    crashes,        \* process crashes so far
    crashedAt,      \* pc at a crash, until the next cycle starts
    repliedAtCrash, \* mentions replied to in the crashed cycle before the crash
    lostAtCrash,    \* those of them that the file left by the crash lacks
    call,           \* the last stand-alone call of safe_post_tweet
    writes,         \* times the dedup file was opened for writing this cycle
    proc,           \* the process: posting the activation message, in the
                    \* main loop, shutting down, exited
    shutdownCalled, \* scheduler.shutdown() was called
    savedAtInterrupt, \* what the file held when the interrupt arrived
    running,        \* the other jobs and requests in progress,
    http,           \* the last request to POST /9dttt-event and its handling
    llm,            \* the last call of generate_llm_response
    boot            \* a start of the module with some environment

vars == <<file, pc, processed, batch, idx, cycle, loaded, fileAtLoad, eff,
          postOk, failed, persistReached, replies, lastSaved, crashes,
          crashedAt, repliedAtCrash, lostAtCrash, call, writes, proc,
          shutdownCalled, savedAtInterrupt, running, http, llm, boot>>

botVars == <<file, pc, processed, batch, idx, cycle, loaded, fileAtLoad, eff,
             postOk, failed, persistReached, replies, lastSaved>>
crashVars == <<crashes, crashedAt, repliedAtCrash, lostAtCrash>>
procVars == <<proc, shutdownCalled, savedAtInterrupt, running>>
otherVars == <<http, llm, boot>>

NoEffect == [lookups |-> 0, shim |-> 0, v2 |-> 0, v1 |-> 0, likes |-> 0, marks |-> 0]
NoCall == [made |-> FALSE, text |-> <<>>, media_ids |-> <<>>,
           in_reply_to_tweet_id |-> <<>>, primary |-> OkOutcome,
           result |-> PostResult(FALSE, FALSE, <<>>, <<>>, FALSE, FALSE)]

NoRequest == [made |-> FALSE]
NoLLMCall == [made |-> FALSE]
NoBoot == [made |-> FALSE]

Init ==
    /\ file = NoFile
    /\ pc = "idle"
    /\ processed = {}
    /\ batch = <<>>
    /\ idx = 1
    /\ cycle = 0
    /\ loaded = {}
    /\ fileAtLoad = NoFile
    /\ eff = [m \in Mentions |-> NoEffect]
    /\ postOk = {}
    /\ failed = {}
    /\ persistReached = FALSE
    /\ replies = [m \in Mentions |-> 0]
    /\ lastSaved = {}
    /\ crashes = 0
    /\ crashedAt = "none"
    /\ repliedAtCrash = {}
    /\ lostAtCrash = {}
    /\ call = NoCall
    /\ writes = 0
    /\ proc = "activation"
    /\ shutdownCalled = FALSE
    /\ savedAtInterrupt = {}
    /\ running = {}
    /\ http = NoRequest
    /\ llm = NoLLMCall
    /\ boot = NoBoot

\* ------------------------------------------- a caller of safe_post_tweet
\* post_update (line 252), bot_broadcast (line 272), the activation message
\* (line 325): one call of the shim with some text, media and reply target.
\* The shim keeps no state between calls, so one call is followed.
SafePostTweetCall ==
    /\ ~ call.made
    /\ \E text \in Texts, media_ids \in MediaChoices, reply \in ReplyChoices,
          primary \in PrimaryOutcomes, fallback \in FallbackOutcomes :
          call' = [made |-> TRUE, text |-> text, media_ids |-> media_ids,
                   in_reply_to_tweet_id |-> reply, primary |-> primary,
                   result |-> safe_post_tweet(text, media_ids, reply, primary, fallback)]
    /\ UNCHANGED botVars
    /\ UNCHANGED crashVars
    /\ UNCHANGED writes
    /\ UNCHANGED procVars
    /\ UNCHANGED otherVars

\* ------------------------------------------------------------ bot_respond
\* line 287 without the str(): an int is never equal to a str of the set
MentionSeenNoStr(m, seen) == FALSE

\* line 287
MentionSeen(m, seen) == ToString(m) \in seen

\* What get_users_mentions can return as mentions.data: distinct mentions,
\* in any order.
Batches ==
    { b \in UNION { [1..n -> Mentions] : n \in 1..MaxBatch } :
        \A i, j \in 1..Len(b) : i # j => b[i] # b[j] }

\* The response text of line 295 (generate_contextual_response is any text).
ReplyTexts == { Text(1, 0), Text(TWITTER_CHAR_LIMIT + 1, 0) }

Bump(e, m, field, by) == [e EXCEPT ![m][field] = @ + by]

cycleVars == <<loaded, fileAtLoad, cycle>>

\* lines 313, 277-278: the scheduler fires the job, which it does only while
\* no run of the job is in progress (add_job keeps max_instances at 1) and
\* before it is shut down; the file is loaded outside the try, so a file
\* json.load cannot parse ends the job with its exception.
BotRespondStart ==
    /\ pc = "idle"
    /\ cycle < MaxCycles
    /\ proc \in {"activation", "main"}
    /\ LET r == load_json_set(file)
       IN  /\ processed' = r.value
           /\ loaded' = r.value
           /\ pc' = IF r.raised THEN "idle" ELSE "get_me"
    /\ cycle' = cycle + 1
    /\ fileAtLoad' = file
    /\ batch' = <<>>
    /\ idx' = 1
    /\ eff' = [m \in Mentions |-> NoEffect]
    /\ postOk' = {}
    /\ failed' = {}
    /\ persistReached' = FALSE
    /\ crashedAt' = "none"
    /\ repliedAtCrash' = {}
    /\ lostAtCrash' = {}
    /\ UNCHANGED <<file, replies, lastSaved, crashes, call>>
    /\ writes' = 0
    /\ UNCHANGED procVars
    /\ UNCHANGED otherVars

\* lines 280-282 (a raise goes to line 303)
GetMe ==
    /\ pc = "get_me"
    /\ \E outcome \in {"data", "nodata", "raise"} :
          pc' = IF outcome = "data" THEN "get_mentions" ELSE "idle"
    /\ UNCHANGED <<file, processed, batch, idx, eff, postOk, failed,
                   persistReached, replies, lastSaved, call>>
    /\ UNCHANGED cycleVars
    /\ UNCHANGED crashVars
    /\ UNCHANGED writes
    /\ UNCHANGED procVars
    /\ UNCHANGED otherVars

\* lines 283-285
GetMentions ==
    /\ pc = "get_mentions"
    /\ \/ \E b \in Batches : batch' = b /\ pc' = "loop"
       \/ batch' = <<>> /\ pc' = "idle"
    /\ idx' = 1
    /\ UNCHANGED <<file, processed, eff, postOk, failed, persistReached,
                   replies, lastSaved, call>>
    /\ UNCHANGED cycleVars
    /\ UNCHANGED crashVars
    /\ UNCHANGED writes
    /\ UNCHANGED procVars
    /\ UNCHANGED otherVars

\* lines 286-288: the loop head and the skip of a seen mention; after the
\* last mention, line 302
LoopNext ==
    /\ pc = "loop"
    /\ IF idx > Len(batch)
       THEN pc' = "save" /\ idx' = idx
       ELSE IF MentionSeen(batch[idx], processed)
       THEN pc' = "loop" /\ idx' = idx + 1
       ELSE pc' = "get_user" /\ idx' = idx
    /\ UNCHANGED <<file, processed, batch, eff, postOk, failed, persistReached,
                   replies, lastSaved, call>>
    /\ UNCHANGED cycleVars
    /\ UNCHANGED crashVars
    /\ UNCHANGED writes
    /\ UNCHANGED procVars
    /\ UNCHANGED otherVars

\* lines 289-292
GetUser ==
    /\ pc = "get_user"
    /\ LET m == batch[idx]
       IN  /\ eff' = Bump(eff, m, "lookups", 1)
           /\ \E outcome \in {"data", "nodata", "raise"} :
                 /\ pc' = CASE outcome = "data" -> "post"
                            [] outcome = "nodata" -> "loop"
                            [] outcome = "raise" -> "idle"
                 /\ idx' = IF outcome = "nodata" THEN idx + 1 ELSE idx
                 /\ failed' = IF outcome = "data" THEN failed ELSE failed \cup {m}
    /\ UNCHANGED <<file, processed, batch, postOk, persistReached, replies,
                   lastSaved, call>>
    /\ UNCHANGED cycleVars
    /\ UNCHANGED crashVars
    /\ UNCHANGED writes
    /\ UNCHANGED procVars
    /\ UNCHANGED otherVars

\* lines 293-296 and 300-301
PostReply ==
    /\ pc = "post"
    /\ LET m == batch[idx]
       IN  \E text \in ReplyTexts, primary \in PrimaryOutcomes,
              fallback \in FallbackOutcomes :
              LET r == safe_post_tweet(text, <<>>, <<m>>, primary, fallback)
                  posts == (IF r.v2posted THEN 1 ELSE 0) + (IF r.v1posted THEN 1 ELSE 0)
              IN  /\ eff' = [eff EXCEPT ![m].shim = @ + 1,
                                        ![m].v2 = @ + Len(r.v2),
                                        ![m].v1 = @ + Len(r.v1)]
                  /\ replies' = [replies EXCEPT ![m] = Min(@ + posts, 2)]
                  /\ pc' = IF r.raised THEN "idle"
                           ELSE IF r.ret THEN "like" ELSE "loop"
                  /\ idx' = IF ~ r.raised /\ ~ r.ret THEN idx + 1 ELSE idx
                  /\ postOk' = IF ~ r.raised /\ r.ret THEN postOk \cup {m} ELSE postOk
                  /\ failed' = IF ~ r.raised /\ r.ret THEN failed ELSE failed \cup {m}
    /\ UNCHANGED <<file, processed, batch, persistReached, lastSaved, call>>
    /\ UNCHANGED cycleVars
    /\ UNCHANGED crashVars
    /\ UNCHANGED writes
    /\ UNCHANGED procVars
    /\ UNCHANGED otherVars

\* line 297
Like ==
    /\ pc = "like"
    /\ eff' = Bump(eff, batch[idx], "likes", 1)
    /\ \E outcome \in {"ok", "raise"} :
          pc' = IF outcome = "ok" THEN "mark" ELSE "idle"
    /\ UNCHANGED <<file, processed, batch, idx, postOk, failed, persistReached,
                   replies, lastSaved, call>>
    /\ UNCHANGED cycleVars
    /\ UNCHANGED crashVars
    /\ UNCHANGED writes
    /\ UNCHANGED procVars
    /\ UNCHANGED otherVars

\* lines 298-299 with the file written after every mention
MarkSeenAndSave ==
    /\ pc = "mark"
    /\ processed' = processed \cup {ToString(batch[idx])}
    /\ file' = FileOf(TRUE, SetToSeq(processed'))
    /\ eff' = Bump(eff, batch[idx], "marks", 1)
    /\ idx' = idx + 1
    /\ pc' = "loop"
    /\ UNCHANGED <<batch, postOk, failed, persistReached, replies,
                   lastSaved, call>>
    /\ UNCHANGED cycleVars
    /\ UNCHANGED crashVars
    /\ writes' = writes + 1
    /\ UNCHANGED procVars
    /\ UNCHANGED otherVars

\* lines 298-299
MarkSeen ==
    /\ pc = "mark"
    /\ processed' = processed \cup {ToString(batch[idx])}
    /\ eff' = Bump(eff, batch[idx], "marks", 1)
    /\ idx' = idx + 1
    /\ pc' = "loop"
    /\ UNCHANGED <<file, batch, postOk, failed, persistReached, replies,
                   lastSaved, call>>
    /\ UNCHANGED cycleVars
    /\ UNCHANGED crashVars
    /\ UNCHANGED writes
    /\ UNCHANGED procVars
    /\ UNCHANGED otherVars

\* lines 302, 149-150: open(filename, 'w') empties the file; an OSError of
\* the open is caught at line 152 and leaves the file as it was
SaveOpen ==
    /\ pc = "save"
    /\ persistReached' = TRUE
    /\ \/ file' = FileOf(FALSE, <<>>) /\ pc' = "dump" /\ writes' = writes + 1
       \/ file' = file /\ pc' = "idle" /\ writes' = writes
    /\ UNCHANGED <<processed, batch, idx, eff, postOk, failed, replies,
                   lastSaved, call>>
    /\ UNCHANGED cycleVars
    /\ UNCHANGED crashVars
    /\ UNCHANGED procVars
    /\ UNCHANGED otherVars

\* line 151 and the close of line 150: the list is written; an OSError of
\* the write is caught at line 152 and leaves what was written before it
SaveDump ==
    /\ pc = "dump"
    /\ \/ /\ file' = FileOf(TRUE, SetToSeq(processed))
          /\ lastSaved' = processed
       \/ /\ \E k \in 0..Cardinality(processed) : file' = Partial(processed, k)
          /\ lastSaved' = lastSaved
    /\ pc' = "idle"
    /\ UNCHANGED <<processed, batch, idx, eff, postOk, failed, persistReached,
                   replies, call>>
    /\ UNCHANGED cycleVars
    /\ UNCHANGED crashVars
    /\ UNCHANGED writes
    /\ UNCHANGED procVars
    /\ UNCHANGED otherVars

Next ==
    \/ BotRespondStart
    \/ GetMe
    \/ GetMentions
    \/ LoopNext
    \/ GetUser
    \/ PostReply
    \/ Like
    \/ MarkSeen
    \/ SaveOpen
    \/ SaveDump

Spec == Init /\ [][Next]_vars

\* ------------------------------------------------------------ a crash
\* The process is killed inside a cycle and restarted: the memory of the
\* cycle is gone, the file stays.  Killed between the open of line 150 and
\* the end of the with block, the file holds what had reached it: nothing,
\* a part of the list, or all of it.
Crash ==
    /\ pc # "idle"
    /\ crashes < MaxCrashes
    /\ crashes' = crashes + 1
    /\ crashedAt' = pc
    /\ repliedAtCrash' = postOk
    /\ IF pc = "dump"
       THEN \/ \E k \in 0..Cardinality(processed) : file' = Partial(processed, k)
            \/ file' = FileOf(TRUE, SetToSeq(processed))
       ELSE file' = file
    /\ lostAtCrash' = { m \in postOk :
                          LET r == load_json_set(file')
                          IN  r.raised \/ ToString(m) \notin r.value }
    /\ pc' = "idle"
    /\ processed' = {}
    /\ UNCHANGED <<batch, idx, eff, postOk, failed, persistReached, replies,
                   lastSaved, call>>
    /\ UNCHANGED cycleVars
    /\ UNCHANGED writes
    /\ UNCHANGED procVars
    /\ UNCHANGED otherVars

NextCrash ==
    \/ BotRespondStart
    \/ GetMe
    \/ GetMentions
    \/ LoopNext
    \/ GetUser
    \/ PostReply
    \/ Like
    \/ MarkSeen
    \/ SaveOpen
    \/ SaveDump
    \/ Crash

SpecCrash == Init /\ [][NextCrash]_vars

NextPost == SafePostTweetCall

SpecPost == Init /\ [][NextPost]_vars




\* ------------------------------------------------ post_update, the webhook
\* A line feed is the one-character string "LF", the game-pad emoji the
\* one-character string "U+1F3AE".
\* line 21
GAME_LINK ==
    <<"h","t","t","p","s",":","/","/","w","w","w",".","9","d","t","t","t",
      ".","c","o","m">>
\* line 22
BOT_NAME ==
    <<"9","D","T","T","T"," ","B","O","T">>

Pad == <<"U+1F3AE">>
LFLF == <<"LF", "LF">>

\* line 177-183: PERSONALITY_TONES, the first line of each tone
PERSONALITY_TONES ==
    [neutral |-> {
        <<"C","h","a","l","l","e","n","g","e"," ","a","c","c","e","p","t",
          "e","d",".">>},
     competitive |-> {
        <<"T","h","i","n","k"," ","y","o","u"," ","c","a","n"," ","b","e",
          "a","t"," ","m","e","?"," ","L","e","t","'","s"," ","s","e","e",
          ".">>},
     friendly |-> {
        <<"G","r","e","a","t"," ","g","a","m","e","!"," ","K","e","e","p",
          " ","i","t"," ","u","p","!">>},
     glitch |-> {
        <<"E","R","R",":",":","G","R","I","D"," ","O","V","E","R","F","L",
          "O","W",":",":","R","E","C","A","L","C","U","L","A","T","I","N",
          "G",".",".",".">>},
     mystical |-> {
        <<"I","n"," ","9"," ","d","i","m","e","n","s","i","o","n","s",",",
          " ","a","l","l"," ","m","o","v","e","s"," ","a","r","e"," ","o",
          "n","e",".">>}]

\* lines 185-191, roll in hundredths
pick_tone(roll) ==
    IF roll < 5 THEN "glitch"
    ELSE IF roll < 15 THEN "mystical"
    ELSE IF roll < 40 THEN "competitive"
    ELSE IF roll < 60 THEN "friendly"
    ELSE "neutral"

\* random.random() of line 186, one value in each bucket of pick_tone
Rolls == {0, 5, 15, 40, 60}

\* lines 193-194: the lines get_personality_line can return
PersonalityLines == UNION { PERSONALITY_TONES[pick_tone(roll)] : roll \in Rolls }

\* line 248
FullText(text, personality_tag) ==
    Pad \o <<" ">> \o BOT_NAME \o <<" ", "U", "P", "D", "A", "T", "E", " ">> \o Pad
        \o LFLF \o text \o LFLF \o personality_tag \o LFLF \o GAME_LINK

\* lines 248-251: the text post_update hands to safe_post_tweet
ComposeUpdate(text, personality_tag) ==
    LET full_text == FullText(text, personality_tag)
    IN  IF Len(full_text) > TWITTER_CHAR_LIMIT
        THEN LET max_text_length ==
                     TWITTER_CHAR_LIMIT - Len(Pad \o <<" ">> \o LFLF \o GAME_LINK)
             IN  Pad \o <<" ">> \o Take(text, max_text_length) \o LFLF \o GAME_LINK
        ELSE full_text

\* lines 246-255: one call of post_update; an exception of safe_post_tweet
\* leaves post_update
post_update(text, personality_tag, primary, fallback) ==
    LET full_text == ComposeUpdate(text, personality_tag)
    IN  [text |-> text, personality_tag |-> personality_tag,
         full_text |-> full_text,
         result |-> safe_post_tweet(full_text, <<>>, <<>>, primary, fallback)]

\* lines 236-241: the event types that have a handler
EventTypes ==
    {"win", "game_start", "tournament", "achievement", "challenge", "leaderboard"}

\* The handlers handle_win_event ... handle_leaderboard_event (line 257: they
\* "just call post_update"): a handler fails before posting, or calls
\* post_update once with the text of its template.
HandlerFails == [fails |-> TRUE, text |-> <<>>]
HandlerPosts(text) == [fails |-> FALSE, text |-> text]

run_handler(h, personality_tag, primary, fallback) ==
    IF h.fails
    THEN [raised |-> TRUE, updates |-> <<>>]
    ELSE LET u == post_update(h.text, personality_tag, primary, fallback)
         IN  [raised |-> u.result.raised, updates |-> <<u>>]

\* JSON values a request can carry.  kind "object" has the key "type" or
\* not; empty says the value is falsy in Python ({}, [], 0, "", false).
Json(kind, empty, hasType, type) ==
    [kind |-> kind, empty |-> empty, hasType |-> hasType, type |-> type]

\* lines 233-244 without the try: an exception leaves the bridge
game_event_bridge_no_try(event, h, personality_tag, primary, fallback) ==
    IF event.kind # "object"
    THEN [raised |-> TRUE, handler |-> "none", updates |-> <<>>]
    ELSE IF event.hasType /\ event.type \in EventTypes
    THEN LET r == run_handler(h, personality_tag, primary, fallback)
         IN  [raised |-> r.raised, handler |-> event.type, updates |-> r.updates]
    ELSE [raised |-> FALSE, handler |-> "none", updates |-> <<>>]

\* lines 233-244: event.get raises AttributeError for a value that is no
\* dict; every Exception of the try is caught at line 243
game_event_bridge(event, h, personality_tag, primary, fallback) ==
    IF event.kind # "object"
    THEN [raised |-> FALSE, handler |-> "none", updates |-> <<>>]
    ELSE IF event.hasType /\ event.type \in EventTypes
    THEN LET r == run_handler(h, personality_tag, primary, fallback)
         IN  [raised |-> FALSE, handler |-> event.type, updates |-> r.updates]
    ELSE [raised |-> FALSE, handler |-> "none", updates |-> <<>>]

\* The body of a request: none, one that does not parse, or a JSON value.
\* request.json is None for no body and for the JSON value null, and Flask
\* itself answers 400 for a body that does not parse.
NoBody == Json("missing", TRUE, FALSE, "")
BadBody == Json("invalid", TRUE, FALSE, "")
ValidJson(body) == body.kind \notin {"missing", "invalid"}

Bodies ==
    {NoBody, BadBody, Json("null", TRUE, FALSE, "")}
        \cup { Json(k, e, FALSE, "") :
                 k \in {"object", "array", "number", "string", "bool"},
                 e \in BOOLEAN }
        \cup { Json("object", FALSE, TRUE, t) : t \in EventTypes \cup {"unknown"} }

NoBridge == [raised |-> FALSE, handler |-> "none", updates |-> <<>>]

\* lines 128-134: the response and what was dispatched
game_event(body, h, personality_tag, primary, fallback) ==
    IF body.kind = "invalid"
    THEN [status |-> 400, dispatched |-> 0, bridge |-> NoBridge]
    ELSE IF body.kind = "missing" \/ body.empty
    THEN \* line 130-131: not request.json
         [status |-> 400, dispatched |-> 0, bridge |-> NoBridge]
    ELSE LET b == game_event_bridge(body, h, personality_tag, primary, fallback)
         IN  [status |-> IF b.raised THEN 500 ELSE 200, dispatched |-> 1,
              bridge |-> b]

\* The texts of the handlers' templates: short ones, and ones around the
\* lengths at which line 249 starts to shorten.
UpdateLens ==
    {0, 1, TWITTER_CHAR_LIMIT + MaxOver}
        \cup { TWITTER_CHAR_LIMIT - Len(FullText(<<>>, t)) + d :
                 t \in PersonalityLines, d \in 0..1 }
        \cup { TWITTER_CHAR_LIMIT - Len(Pad \o <<" ">> \o LFLF \o GAME_LINK) + d :
                 d \in 0..1 }

HandlerRuns == {HandlerFails} \cup { HandlerPosts(Text(n, 0)) : n \in UpdateLens }

\* One request to POST /9dttt-event, handled to its response.
GameEvent ==
    /\ ~ http.made
    /\ \E body \in Bodies, h \in HandlerRuns, tag \in PersonalityLines,
          primary \in PrimaryOutcomes, fallback \in FallbackOutcomes :
          http' = [made |-> TRUE, body |-> body,
                   response |-> game_event(body, h, tag, primary, fallback)]
    /\ UNCHANGED <<botVars, crashVars, procVars, call, writes, llm, boot>>

NextWebhook == GameEvent

SpecWebhook == Init /\ [][NextWebhook]_vars

\* ------------------------------------------------- generate_llm_response
\* os.getenv gives None (<<>>) or a string (<<s>>), which may be empty.
EnvValues == { <<>>, << <<>> >>, << <<"k">> >> }

\* "if value is None": an empty string passes
AbsentNoneOnly(v) == v = <<>>

\* "if not value" / "if not HUGGING_FACE_TOKEN" for such a value
Absent(v) == v = <<>> \/ v[1] = <<>>

IsSpace(c) == c \in {" ", "LF", "TAB"}

RECURSIVE LStrip(_)
LStrip(t) == IF t # <<>> /\ IsSpace(Head(t)) THEN LStrip(Tail(t)) ELSE t

RECURSIVE RStrip(_)
RStrip(t) ==
    IF t # <<>> /\ IsSpace(t[Len(t)]) THEN RStrip(SubSeq(t, 1, Len(t) - 1)) ELSE t

\* str.strip()
Strip(t) == RStrip(LStrip(t))

\* What requests.post (line 221) does: it raises (a timeout, a connection
\* error), or gives a response with a status and a body.  The body is no
\* JSON, a JSON object, or a JSON list whose first element (if any) is no
\* object or is an object whose "generated_text" is missing, null, a number
\* or a string.
Body(kind, text) == [kind |-> kind, text |-> text]

GeneratedTexts ==
    { <<>>, <<" ">>, <<"LF">>, <<"h", "i">>, <<" ", "h", "i", " ">>,
      <<"h", "i", "LF">>, <<"a", " ", "b">> }

LLMBodies ==
    { Body(k, <<>>) :
        k \in {"not_json", "object", "empty_list", "list_of_text",
               "no_generated_text", "generated_text_null",
               "generated_text_number"} }
        \cup { Body("generated_text", t) : t \in GeneratedTexts }

LLMResponses ==
    { [raises |-> TRUE, status |-> 0, body |-> Body("none", <<>>)] }
        \cup { [raises |-> FALSE, status |-> st, body |-> b] :
                 st \in {200, 404, 429, 503}, b \in LLMBodies }

\* lines 213-228; the value is None (<<>>) or a string (<<s>>)
generate_llm_response(token, response) ==
    IF Absent(token)
    THEN \* line 214-215
         [raised |-> FALSE, requested |-> FALSE, value |-> <<>>]
    ELSE IF response.raises
    THEN \* line 226-228
         [raised |-> FALSE, requested |-> TRUE, value |-> <<>>]
    ELSE IF response.status # 200
    THEN [raised |-> FALSE, requested |-> TRUE, value |-> <<>>]
    ELSE LET k == response.body.kind
         IN  IF k = "generated_text"
             THEN \* line 225
                  [raised |-> FALSE, requested |-> TRUE,
                   value |-> << Strip(response.body.text) >>]
             ELSE IF k = "no_generated_text"
             THEN \* line 225: .get('generated_text', '') gives ''
                  [raised |-> FALSE, requested |-> TRUE, value |-> << <<>> >>]
             ELSE \* response.json() raises, the isinstance test of line 224
                  \* fails, or .get / .strip raises AttributeError
                  [raised |-> FALSE, requested |-> TRUE, value |-> <<>>]

Prompts == { <<"h", "i">>, <<"r", "u", "l", "e", "s">> }

\* One call of generate_llm_response.
LLMCall ==
    /\ ~ llm.made
    /\ \E token \in EnvValues, prompt \in Prompts, response \in LLMResponses :
          LET r == generate_llm_response(token, response)
          IN  llm' = [made |-> TRUE, token |-> token, prompt |-> prompt,
                      response |-> IF r.requested THEN response
                                   ELSE [raises |-> FALSE, status |-> 0,
                                         body |-> Body("none", <<>>)],
                      result |-> r]
    /\ UNCHANGED <<botVars, crashVars, procVars, call, writes, http, boot>>

NextLLM == LLMCall

SpecLLM == Init /\ [][NextLLM]_vars

\* ------------------------------------------------------- the module start
\* line 43-49: required_credentials, in the order of the dict
RequiredNames ==
    <<"CONSUMER_KEY", "CONSUMER_SECRET", "ACCESS_TOKEN", "ACCESS_SECRET",
      "BEARER_TOKEN">>

\* The environment: a value for each required name.
Envs == [Range(RequiredNames) -> EnvValues]

\* line 50
missing_credentials(env) ==
    LET IsMissing(key) == Absent(env[key])
    IN  SelectSeq(RequiredNames, IsMissing)

\* lines 312-315
ScheduledJobs == <<"bot_broadcast", "bot_respond", "bot_retweet_hunt", "bot_diagnostic">>

\* line 323-324
PrepareActivation(activation_msg) ==
    IF Len(activation_msg) > TWITTER_CHAR_LIMIT
    THEN Take(activation_msg, TWITTER_CHAR_LIMIT - 20)
            \o <<".", ".", ".", " ">> \o GAME_LINK
    ELSE activation_msg

NoPost == PostResult(FALSE, FALSE, <<>>, <<>>, FALSE, FALSE)

\* lines 35-66 and 311-330: the module start, from the environment to the
\* activation message.  The ValueError of line 52 ends it before line 54.
Startup(env, hf_token, activation_msg, primary, fallback) ==
    LET missing == missing_credentials(env)
    IN  IF missing # <<>>
        THEN [failed |-> TRUE, error |-> missing, clients |-> FALSE,
              jobs |-> <<>>, started |-> FALSE, prepared |-> <<>>,
              result |-> NoPost]
        ELSE LET msg == PrepareActivation(activation_msg)
             IN  [failed |-> FALSE, error |-> <<>>, clients |-> TRUE,
                  jobs |-> ScheduledJobs, started |-> TRUE, prepared |-> msg,
                  result |-> safe_post_tweet(msg, <<>>, <<>>, primary, fallback)]

\* line 321-322: any message of activation_messages
ActivationTexts ==
    { Text(n, k) : n \in {1, TWITTER_CHAR_LIMIT, TWITTER_CHAR_LIMIT + 1,
                          TWITTER_CHAR_LIMIT + MaxOver},
                   k \in 0..1 }

\* One start of the module.
ModuleStart ==
    /\ ~ boot.made
    /\ \E env \in Envs, hf_token \in EnvValues, activation_msg \in ActivationTexts,
          primary \in PrimaryOutcomes, fallback \in FallbackOutcomes :
          LET r == Startup(env, hf_token, activation_msg, primary, fallback)
          IN  boot' = [made |-> TRUE, env |-> env, hf_token |-> hf_token,
                       activation_msg |-> IF r.failed THEN <<>> ELSE activation_msg,
                       run |-> r]
    /\ UNCHANGED <<botVars, crashVars, procVars, call, writes, http, llm>>

NextStartup == ModuleStart

SpecStartup == Init /\ [][NextStartup]_vars

\* ------------------------------------------- the other jobs and requests
\* lines 312, 314, 315 and 128: the jobs other than bot_respond, and the
\* webhook handler
OtherJobs == {"bot_broadcast", "bot_retweet_hunt", "bot_diagnostic", "game_event"}

\* The scheduler fires a job (one run of a job at a time, as for
\* bot_respond), or a request arrives (one request is followed at a time).
JobStart ==
    /\ proc \in {"activation", "main"}
    /\ \E j \in OtherJobs \ running : running' = running \cup {j}
    /\ UNCHANGED <<proc, shutdownCalled, savedAtInterrupt>>
    /\ UNCHANGED <<botVars, crashVars, call, writes, otherVars>>

\* lines 264-275: bot_broadcast posts through safe_post_tweet and ends; it
\* does not name the dedup file.
BotBroadcast ==
    /\ "bot_broadcast" \in running
    /\ \E media_ids \in MediaChoices, primary \in PrimaryOutcomes,
          fallback \in FallbackOutcomes :
          LET r == safe_post_tweet(Text(1, 0), media_ids, <<>>, primary, fallback)
          IN  running' = running \ {"bot_broadcast"}
    /\ UNCHANGED <<proc, shutdownCalled, savedAtInterrupt>>
    /\ UNCHANGED <<botVars, crashVars, call, writes, otherVars>>

\* bot_retweet_hunt and bot_diagnostic: jobs that post and do not touch the
\* dedup file.
OtherJobEnd ==
    /\ \E j \in {"bot_retweet_hunt", "bot_diagnostic"} \cap running :
          running' = running \ {j}
    /\ UNCHANGED <<proc, shutdownCalled, savedAtInterrupt>>
    /\ UNCHANGED <<botVars, crashVars, call, writes, otherVars>>

\* lines 128-134: the webhook handler answers; its answer depends on the
\* body alone and it does not name the dedup file.
GameEventDone ==
    /\ "game_event" \in running
    /\ \E body \in Bodies, h \in HandlerRuns :
          LET r == game_event(body, h, <<>>, OkOutcome, OkOutcome)
          IN  running' = running \ {"game_event"}
    /\ UNCHANGED <<proc, shutdownCalled, savedAtInterrupt>>
    /\ UNCHANGED <<botVars, crashVars, call, writes, otherVars>>

NextJobs ==
    \/ BotRespondStart
    \/ GetMe
    \/ GetMentions
    \/ LoopNext
    \/ GetUser
    \/ PostReply
    \/ Like
    \/ MarkSeen
    \/ SaveOpen
    \/ SaveDump
    \/ JobStart
    \/ BotBroadcast
    \/ OtherJobEnd
    \/ GameEventDone

SpecJobs == Init /\ [][NextJobs]_vars

\* ------------------------------------------------------------ an interrupt
\* What the dedup file holds for a reader: while json.dump is writing, what
\* it held before the open of line 149 emptied it.
Persisted == IF pc = "dump" THEN load_json_set(fileAtLoad).value
             ELSE load_json_set(file).value

\* line 330 to line 336: the activation is over, the main loop is entered
ActivationDone ==
    /\ proc = "activation"
    /\ proc' = "main"
    /\ UNCHANGED <<shutdownCalled, savedAtInterrupt, running>>
    /\ UNCHANGED <<botVars, crashVars, call, writes, otherVars>>

\* KeyboardInterrupt in the main thread.  Inside the try of line 336 it is
\* caught at line 340 and scheduler.shutdown() is called, which waits for the
\* running jobs.  During the activation of lines 320-330 it is not an
\* Exception, so line 329 does not catch it and the module ends with it:
\* scheduler.shutdown() is not called; the interpreter's exit still waits
\* for the running job.
Interrupt ==
    /\ proc \in {"activation", "main"}
    /\ shutdownCalled' = (proc = "main")
    /\ savedAtInterrupt' = Persisted
    /\ proc' = "stopping"
    /\ UNCHANGED running
    /\ UNCHANGED <<botVars, crashVars, call, writes, otherVars>>

\* line 341 and the end of the script
Exit ==
    /\ proc = "stopping"
    /\ pc = "idle"
    /\ running = {}
    /\ proc' = "exited"
    /\ UNCHANGED <<shutdownCalled, savedAtInterrupt, running>>
    /\ UNCHANGED <<botVars, crashVars, call, writes, otherVars>>

NextInterrupt ==
    \/ BotRespondStart
    \/ GetMe
    \/ GetMentions
    \/ LoopNext
    \/ GetUser
    \/ PostReply
    \/ Like
    \/ MarkSeen
    \/ SaveOpen
    \/ SaveDump
    \/ ActivationDone
    \/ Interrupt
    \/ Exit

SpecInterrupt == Init /\ [][NextInterrupt]_vars

\* ================================================================== claims
IdsIn(f) == load_json_set(f).value
Loadable(f) == ~ load_json_set(f).raised
CycleEnded == pc = "idle" /\ batch # <<>> /\ crashedAt = "none"
InBatch(m) == \E i \in 1..Len(batch) : batch[i] = m

\* C1: over crash-free cycles in which any platform call or the save may
\* fail, no mention receives more than one successful reply post.
C1_NoDoubleReply == \A m \in Mentions : replies[m] <= 1

\* C2: a mention whose identifier, as a string, is in the dedup set loaded
\* at the start of the cycle causes no author lookup, no call of the shim,
\* no post attempt on either surface, no like and no addition to the
\* in-memory set in that cycle.
C2_SeenMentionNoEffect ==
    \A m \in Mentions : ToString(m) \in loaded => eff[m] = NoEffect

\* C2 witness: a cycle has ended whose batch held a mention of the loaded set
\* together with a new one that was replied to.
C2_Witness ==
    /\ CycleEnded
    /\ persistReached
    /\ \E m \in Mentions : InBatch(m) /\ ToString(m) \in loaded
    /\ postOk # {}

\* C3: for every mention of the batch that is not in the loaded set the
\* cycle calls the shim exactly once, and when that call succeeded the
\* identifier is in the dedup file once the cycle has ended.
C3_OnePostAndPersisted ==
    CycleEnded =>
        \A m \in Mentions :
            (InBatch(m) /\ ToString(m) \notin loaded) =>
                /\ eff[m].shim = 1
                /\ m \in postOk => (Loadable(file) /\ ToString(m) \in IdsIn(file))

\* C4: when the handling of a mention fails (author lookup without data or
\* raising, reply post failing), the mention is not added to the dedup set,
\* every other mention of the batch is still handled and the cycle reaches
\* its persist step.
C4_FailureIsolated ==
    (CycleEnded /\ failed # {}) =>
        /\ \A m \in failed : eff[m].marks = 0
        /\ \A m \in Mentions :
              InBatch(m) => (ToString(m) \in loaded \/ eff[m].lookups >= 1)
        /\ persistReached

\* C5 as stated: after a crash inside a cycle, at most one mention replied
\* to in that cycle is absent from the dedup file.
C5_AtMostOneLost == crashedAt # "none" => Cardinality(lostAtCrash) <= 1

\* C5 amended: after a crash inside a cycle, every mention replied to in
\* that cycle is absent from the dedup file (as many as the cycle replied
\* to), unless the crash fell inside save_json_set after the open, where
\* either all of them are lost or none is.
C5_CrashLosesCycleReplies ==
    crashedAt # "none" =>
        \/ lostAtCrash = repliedAtCrash
        \/ crashedAt = "dump" /\ lostAtCrash = {}

\* C5 witness: a crash before the save lost two replied mentions.
C5_Witness ==
    /\ crashedAt \notin {"none", "dump"}
    /\ Cardinality(repliedAtCrash) >= 2
    /\ lostAtCrash = repliedAtCrash

\* C6: whenever a cycle may start, after any crash or write failure inside
\* save_json_set, the dedup file loads and holds every identifier of the
\* last save that completed.
C6_AtomicPersist ==
    pc = "idle" => (Loadable(file) /\ lastSaved \subseteq IdsIn(file))

\* C7: a primary failure that is a quota/payment error is followed by
\* exactly one fallback call, every other primary failure by none.
C7_FallbackOnlyOnQuota ==
    (call.made /\ ~ call.primary.ok) =>
        Len(call.result.v1) = (IF IsQuotaError(call.primary) THEN 1 ELSE 0)

\* C8: one call of safe_post_tweet posts at most once: the fallback is
\* called only after a primary call that failed and did not post.
C8_AtMostOnePost ==
    call.made =>
        /\ ~ (call.result.v2posted /\ call.result.v1posted)
        /\ Len(call.result.v2) = 1
        /\ Len(call.result.v1) <= 1
        /\ Len(call.result.v1) = 1 => (~ call.primary.ok /\ ~ call.result.v2posted)

\* C8 witness: a call whose fallback was called and posted.
C8_Witness ==
    /\ call.made
    /\ Len(call.result.v1) = 1
    /\ call.result.v1posted

\* C9: safe_post_tweet never raises, returns True exactly when the primary
\* or the fallback call succeeded, and makes at most one call on each
\* surface.
C9_BooleanNeverRaises ==
    call.made =>
        /\ ~ call.result.raised
        /\ call.result.ret = (call.result.v2posted \/ call.result.v1posted)
        /\ Len(call.result.v2) <= 1
        /\ Len(call.result.v1) <= 1

\* C10: a text longer than the limit is submitted as its first LIMIT-60
\* characters plus an ellipsis marker when a reply-to identifier is given,
\* and as its first LIMIT-20 characters plus an ellipsis marker otherwise,
\* so that it is at most LIMIT long and ends with an ellipsis marker; a
\* text of at most LIMIT characters is submitted unchanged.
C10_Truncation ==
    call.made =>
        LET text == call.text
            sent == call.result.v2[1].text
            keep == IF call.in_reply_to_tweet_id # <<>>
                    THEN TWITTER_CHAR_LIMIT - 60 ELSE TWITTER_CHAR_LIMIT - 20
        IN  IF Len(text) > TWITTER_CHAR_LIMIT
            THEN /\ \E marker \in {Dots, Ellipsis} :
                       /\ sent = SubSeq(text, 1, keep) \o marker
                       /\ EndsWith(sent, marker)
                 /\ Len(sent) <= TWITTER_CHAR_LIMIT
            ELSE sent = text

\* C10 witness: a reply text longer than the limit was submitted.
C10_Witness ==
    /\ call.made
    /\ Len(call.text) > TWITTER_CHAR_LIMIT
    /\ call.in_reply_to_tweet_id # <<>>
    /\ Len(call.result.v2) = 1

\* C11: game_event_bridge never raises to its caller, whatever the payload
\* and whether or not the handler fails, and makes no post attempt for a
\* payload whose type is none of the six event types.
C11_BridgeNeverRaises ==
    (http.made /\ http.response.dispatched = 1) =>
        /\ ~ http.response.bridge.raised
        /\ ~ (http.body.kind = "object" /\ http.body.hasType
                /\ http.body.type \in EventTypes)
              => http.response.bridge.updates = <<>>

\* C11 witness: a dispatched payload of a known type whose handling ended
\* with an exception, the handler's own or the one of the post.
C11_Witness ==
    /\ http.made
    /\ http.response.dispatched = 1
    /\ http.body.hasType
    /\ http.body.type \in EventTypes
    /\ \/ http.response.bridge.updates = <<>>
       \/ http.response.bridge.updates[1].result.raised

\* C12: the webhook answers 400 only for a missing or invalid JSON body; for
\* every valid JSON body, an empty object included, it dispatches to the
\* bridge exactly once and answers 200.
C12_WebhookStatus ==
    http.made =>
        /\ http.response.status = 400 => ~ ValidJson(http.body)
        /\ (ValidJson(http.body) /\ http.body.kind # "null") =>
              (http.response.dispatched = 1 /\ http.response.status = 200)

\* C13: the text post_update hands to the shim is at most the limit long,
\* ends with the game link and contains the personality line chosen for the
\* update.
C13_UpdateKeepsSuffixes ==
    (http.made /\ http.response.bridge.updates # <<>>) =>
        LET u == http.response.bridge.updates[1]
        IN  /\ Len(u.full_text) <= TWITTER_CHAR_LIMIT
            /\ EndsWith(u.full_text, GAME_LINK)
            /\ Contains(u.full_text, u.personality_tag)

\* C14: generate_llm_response never raises; without a token, on a request
\* that raises, on a status other than 200 and on a malformed body it
\* returns None; any other value it returns is non-empty text.
C14_LLMNoneOrText ==
    llm.made =>
        /\ ~ llm.result.raised
        /\ (\/ Absent(llm.token)
            \/ llm.response.raises
            \/ llm.response.status # 200
            \/ llm.response.body.kind # "generated_text") => llm.result.value = <<>>
        /\ llm.result.value # <<>> => llm.result.value[1] # <<>>

\* C15: when a required secret is absent or empty, the start fails with an
\* error naming exactly the missing ones, before any client is built, any
\* job is scheduled or any post is attempted; otherwise it does not fail,
\* whatever the text-generation token is.
C15_MissingSecretsFailFast ==
    boot.made =>
        LET missing == { k \in Range(RequiredNames) :
                           boot.env[k] = <<>> \/ boot.env[k] = << <<>> >> }
        IN  IF missing # {}
            THEN /\ boot.run.failed
                 /\ Range(boot.run.error) = missing
                 /\ Len(boot.run.error) = Cardinality(missing)
                 /\ ~ boot.run.clients
                 /\ boot.run.jobs = <<>>
                 /\ ~ boot.run.started
                 /\ boot.run.result.v2 = <<>>
                 /\ boot.run.result.v1 = <<>>
            ELSE /\ ~ boot.run.failed
                 /\ boot.run.clients

\* C15 witness: a start that failed over one absent and one empty secret.
C15_Witness ==
    /\ boot.made
    /\ boot.run.failed
    /\ boot.env["ACCESS_TOKEN"] = <<>>
    /\ boot.env["BEARER_TOKEN"] = << <<>> >>
    /\ Len(boot.run.error) = 2

\* C20: for an activation message longer than the limit, the text finally
\* submitted at the start is at most the limit long and ends with the game
\* link.
C20_ActivationKeepsLink ==
    (boot.made /\ ~ boot.run.failed /\ Len(boot.activation_msg) > TWITTER_CHAR_LIMIT) =>
        LET sent == boot.run.result.v2[1].text
        IN  /\ Len(sent) <= TWITTER_CHAR_LIMIT
            /\ EndsWith(sent, GAME_LINK)

\* C16: when safe_post_tweet falls back to the secondary surface, that
\* attempt carries the text, the media ids and the reply-to identifier of
\* the primary attempt of the call, and auto-populates the reply metadata
\* exactly when a reply-to identifier is given.
C16_FallbackSameArguments ==
    (call.made /\ call.result.v1 # <<>>) =>
        LET a == call.result.v2[1]
            b == call.result.v1[1]
        IN  /\ Len(call.result.v2) = 1
            /\ Len(call.result.v1) = 1
            /\ b.status = a.text
            /\ Len(b.status) <= TWITTER_CHAR_LIMIT
            /\ b.media_ids = a.media_ids
            /\ b.media_ids = call.media_ids
            /\ b.in_reply_to_status_id = a.in_reply_to_tweet_id
            /\ b.in_reply_to_status_id = call.in_reply_to_tweet_id
            /\ b.auto_populate_reply_metadata = (call.in_reply_to_tweet_id # <<>>)

\* C16 witness: a fallback attempt for an over-long reply with media.
C16_Witness ==
    /\ call.made
    /\ call.result.v1 # <<>>
    /\ Len(call.text) > TWITTER_CHAR_LIMIT
    /\ call.media_ids # <<>>
    /\ call.in_reply_to_tweet_id # <<>>

\* C18: within one cycle the dedup file is written at most once and only
\* after every mention of the batch has been handled; a mention is liked
\* only after its reply post succeeded and marked seen only after the like;
\* and every cycle that replied to a mention ends with the save.
C18_CycleOrder ==
    /\ writes <= 1
    /\ (writes > 0 \/ persistReached) => idx > Len(batch)
    /\ \A m \in Mentions :
          /\ eff[m].likes > 0 => m \in postOk
          /\ eff[m].marks > 0 => eff[m].likes > 0
          /\ eff[m].likes <= 1 /\ eff[m].marks <= 1
    /\ (CycleEnded /\ postOk # {}) => persistReached

\* C17: with the other jobs and the webhook interleaved in any way and no
\* crash, a mention-check cycle that has ended leaves in the dedup file
\* every identifier the file held when the cycle began, and nothing but a
\* save of that job has changed the file.
C17_NoIdentifierLost ==
    /\ (pc = "idle" /\ cycle > 0) =>
          load_json_set(fileAtLoad).value \subseteq load_json_set(file).value
    /\ (writes = 0 /\ pc # "idle") => file = fileAtLoad

\* C19: after an interrupt and the exit that follows it, the scheduler has
\* been shut down and the dedup file holds every identifier it held when
\* the interrupt arrived.
C19_InterruptKeepsPersisted ==
    proc = "exited" =>
        /\ shutdownCalled
        /\ savedAtInterrupt \subseteq IdsIn(file)

====
